---- MODULE Spec2Model ----
(***************************************************************************)
(* Model of src/src/pwm_gui.cpp: a Qt panel that drives three LEDs through *)
(* the pigpio PWM driver.  main() initialises the driver, connects the     *)
(* aboutToQuit handler, builds the window (red slider, exit button, 20 ms  *)
(* fade timer for green/blue) and runs the event loop.  The event loop is  *)
(* single threaded: one action of the model is one handler run to its end. *)
(*                                                                         *)
(* Every driver call a handler makes is recorded, in order, in lastCalls,  *)
(* stamped with the state the driver was in when the call reached it.      *)
(***************************************************************************)
EXTENDS Integers, Sequences, FiniteSets

VARIABLES
    pc,            \* position of main(): start, createGui, exec, quitting, done
    drv,           \* pigpio library state: uninit, ready, failed, terminated
    initOk,        \* gpioInitialise() has returned a non-negative value
    initCalls,     \* number of gpioInitialise() calls so far
    termCalls,     \* number of gpioTerminate() calls so far
    modeSet,       \* pins gpioSetMode() was called for
    lastDuty,      \* pin -> duty cycle of the latest gpioPWM() call on it
    window,        \* none, shown, destroyed
    sliderValue,   \* QSlider value of the red slider
    brightness,    \* TimerState::brightness
    increasing,    \* TimerState::increasing
    ticks,         \* number of timeouts of the fade timer so far
    lastOp,        \* the step of the program that ran last
    lastCalls,     \* the driver calls that step made, in order
    errorReported, \* qCritical("Startup Error: ...") was called
    exitCode       \* <<>> while running, <<c>> once main() returned c

vars == <<pc, drv, initOk, initCalls, termCalls, modeSet, lastDuty, window,
          sliderValue, brightness, increasing, ticks, lastOp, lastCalls,
          errorReported, exitCode>>

---------------------------------------------------------------------------
(* Program constants *)

RED_LED == 17
GREEN_LED == 27
BLUE_LED == 22

Pins == {RED_LED, GREEN_LED, BLUE_LED}

\* slider->setRange(0, 255)
SliderMin == 0
SliderMax == 255

\* the fade timer's constexpr int step{2} and its cap values
step == 2
MaxBrightness == 255
MinBrightness == 0

\* gpioInitialise() returns the library version, or a negative error code
InitResults == {-1, 1}

---------------------------------------------------------------------------
(* Bounds of the model *)

\* the fade timer fires at most MaxTicks times in a run
MaxTicks == 258

\* one user gesture moves the slider handle by at most MaxDelta positions
MaxDelta == 3

\* under fair scheduling the user keeps the slider within 0..MaxSliderLive
MaxSliderLive == 8

---------------------------------------------------------------------------
(* The driver boundary *)

InitCall(r) == [op |-> "init", val |-> r]
SetModeCall(p) == [op |-> "setMode", pin |-> p, mode |-> "PI_OUTPUT"]
PwmCall(p, d) == [op |-> "pwm", pin |-> p, val |-> d]
TerminateCall == [op |-> "terminate"]

\* the library's state after one call
DrvAfter(d, c) ==
    IF c.op = "init" THEN (IF c.val < 0 THEN "failed" ELSE "ready")
    ELSE IF c.op = "terminate" THEN "terminated"
    ELSE d

RECURSIVE DrvAfterAll(_, _)
DrvAfterAll(d, calls) ==
    IF calls = <<>> THEN d
    ELSE DrvAfterAll(DrvAfter(d, Head(calls)), Tail(calls))

\* the calls, each stamped with the library's state when it is made
Stamp(d, calls) ==
    [i \in 1..Len(calls) |->
        [f \in DOMAIN calls[i] \cup {"at"} |->
            IF f = "at" THEN DrvAfterAll(d, SubSeq(calls, 1, i - 1))
            ELSE calls[i][f]]]

CountOp(calls, o) == Cardinality({i \in 1..Len(calls) : calls[i].op = o})

RECURSIVE DutyAfter(_, _)
DutyAfter(f, calls) ==
    IF calls = <<>> THEN f
    ELSE LET c == Head(calls)
             g == IF c.op = "pwm"
                  THEN [q \in DOMAIN f \cup {c.pin} |->
                            IF q = c.pin THEN c.val ELSE f[q]]
                  ELSE f
         IN DutyAfter(g, Tail(calls))

\* a step of the program makes these driver calls, in this order
Issue(calls) ==
    /\ lastCalls' = Stamp(drv, calls)
    /\ drv' = DrvAfterAll(drv, calls)
    /\ initCalls' = initCalls + CountOp(calls, "init")
    /\ termCalls' = termCalls + CountOp(calls, "terminate")
    /\ initOk' = (initOk \/ \E i \in 1..Len(calls) :
                                calls[i].op = "init" /\ calls[i].val >= 0)
    /\ modeSet' = modeSet \cup
                    {calls[i].pin : i \in {j \in 1..Len(calls) : calls[j].op = "setMode"}}
    /\ lastDuty' = DutyAfter(lastDuty, calls)

---------------------------------------------------------------------------
(* The code of each step *)

\* setupGpio: if (gpioInitialise() < 0) throw
InitFailedIgnored(r) == FALSE

InitFailed(r) == r < 0

\* setupGpio after a successful initialisation
SetModeCalls == <<SetModeCall(RED_LED), SetModeCall(GREEN_LED), SetModeCall(BLUE_LED)>>

\* main's catch block: qCritical, gpioTerminate, return 1
CatchCallsNoRelease == <<>>

CatchCalls == <<TerminateCall>>

\* what main returns: 1 from the catch block, app.exec()'s value otherwise;
\* QApplication::quit() makes exec() return 0
MainReturnAlwaysZero(threw) == 0

MainReturn(threw) == IF threw THEN 1 ELSE 0

\* the aboutToQuit handler
AboutToQuitTerminateFirst ==
    <<TerminateCall, PwmCall(RED_LED, 0), PwmCall(GREEN_LED, 0), PwmCall(BLUE_LED, 0)>>

AboutToQuitCalls ==
    <<PwmCall(RED_LED, 0), PwmCall(GREEN_LED, 0), PwmCall(BLUE_LED, 0), TerminateCall>>

\* QSlider keeps its value inside the range set by setRange(0, 255)
BoundValueNoRange(v) == v

BoundValue(v) ==
    IF v < SliderMin THEN SliderMin ELSE IF v > SliderMax THEN SliderMax ELSE v

\* the valueChanged lambda of createLedSlider
SliderCallsAllChannels(gpioPin, value) ==
    <<PwmCall(RED_LED, value), PwmCall(GREEN_LED, value), PwmCall(BLUE_LED, value)>>

SliderCallsGreen(gpioPin, value) == <<PwmCall(GREEN_LED, value)>>

SliderCalls(gpioPin, value) == <<PwmCall(gpioPin, value)>>

\* the timeout lambda: the two emissions, made before the level is stepped
TickCallsAfterStep(b) ==
    <<PwmCall(GREEN_LED, b), PwmCall(BLUE_LED, 255 - (b + step))>>

TickCallsRedToo(b) ==
    <<PwmCall(RED_LED, b), PwmCall(GREEN_LED, b), PwmCall(BLUE_LED, 255 - b)>>

TickCalls(b) == <<PwmCall(GREEN_LED, b), PwmCall(BLUE_LED, 255 - b)>>

\* the timeout lambda: step the level, cap it and turn round at the ends
FadeStepNoCap(b, inc) ==
    IF inc
    THEN [brightness |-> b + step, increasing |-> ~(b + step >= MaxBrightness)]
    ELSE [brightness |-> b - step, increasing |-> (b - step <= MinBrightness)]

FadeStepLateTurn(b, inc) ==
    IF inc
    THEN IF b >= MaxBrightness
         THEN [brightness |-> MaxBrightness, increasing |-> FALSE]
         ELSE [brightness |-> BoundValue(b + step), increasing |-> TRUE]
    ELSE IF b <= MinBrightness
         THEN [brightness |-> MinBrightness, increasing |-> TRUE]
         ELSE [brightness |-> BoundValue(b - step), increasing |-> FALSE]

FadeStepCheckBeforeStep(b, inc) ==
    IF inc
    THEN IF b >= MaxBrightness
         THEN [brightness |-> MaxBrightness, increasing |-> FALSE]
         ELSE [brightness |-> b + step, increasing |-> TRUE]
    ELSE IF b <= MinBrightness
         THEN [brightness |-> MinBrightness, increasing |-> TRUE]
         ELSE [brightness |-> b - step, increasing |-> FALSE]

FadeStepStuckAtTop(b, inc) ==
    IF inc
    THEN IF b + step >= MaxBrightness
         THEN [brightness |-> MaxBrightness, increasing |-> TRUE]
         ELSE [brightness |-> b + step, increasing |-> TRUE]
    ELSE IF b - step <= MinBrightness
         THEN [brightness |-> MinBrightness, increasing |-> TRUE]
         ELSE [brightness |-> b - step, increasing |-> FALSE]

FadeStep(b, inc) ==
    IF inc
    THEN IF b + step >= MaxBrightness
         THEN [brightness |-> MaxBrightness, increasing |-> FALSE]
         ELSE [brightness |-> b + step, increasing |-> TRUE]
    ELSE IF b - step <= MinBrightness
         THEN [brightness |-> MinBrightness, increasing |-> TRUE]
         ELSE [brightness |-> b - step, increasing |-> FALSE]

---------------------------------------------------------------------------
(* The state machine *)

Init ==
    /\ pc = "start"
    /\ drv = "uninit"
    /\ initOk = FALSE
    /\ initCalls = 0
    /\ termCalls = 0
    /\ modeSet = {}
    /\ lastDuty = [p \in {} |-> 0]
    /\ window = "none"
    /\ sliderValue = 0
    /\ brightness = 0
    /\ increasing = TRUE
    /\ ticks = 0
    /\ lastOp = "none"
    /\ lastCalls = <<>>
    /\ errorReported = FALSE
    /\ exitCode = <<>>

\* main, from its entry to the connect of the aboutToQuit handler, or through
\* the catch block when setupGpio throws
SetupGpio(r) ==
    /\ pc = "start"
    /\ lastOp' = "setupGpio"
    /\ IF InitFailed(r)
       THEN /\ Issue(<<InitCall(r)>> \o CatchCalls)
            /\ errorReported' = TRUE
            /\ exitCode' = <<MainReturn(TRUE)>>
            /\ pc' = "done"
       ELSE /\ Issue(<<InitCall(r)>> \o SetModeCalls)
            /\ pc' = "createGui"
            /\ UNCHANGED <<errorReported, exitCode>>
    /\ UNCHANGED <<window, sliderValue, brightness, increasing, ticks>>

\* createGui and window->show(): the window, the slider at 0, the fade state
\* at (0, increasing), the timer started; or an exception on the way, which
\* unwinds to main's catch block
CreateGui(throws) ==
    /\ pc = "createGui"
    /\ lastOp' = "createGui"
    /\ IF throws
       THEN /\ Issue(CatchCalls)
            /\ errorReported' = TRUE
            /\ exitCode' = <<MainReturn(TRUE)>>
            /\ pc' = "done"
            /\ UNCHANGED <<window, sliderValue, brightness, increasing>>
       ELSE /\ Issue(<<>>)
            /\ window' = "shown"
            /\ sliderValue' = BoundValue(0)
            /\ brightness' = 0
            /\ increasing' = TRUE
            /\ pc' = "exec"
            /\ UNCHANGED <<errorReported, exitCode>>
    /\ UNCHANGED ticks

\* the user moves the red slider's handle by d; valueChanged fires when the
\* value changes, and its lambda calls gpioPWM
SliderMove(d) ==
    /\ pc = "exec"
    /\ LET v == BoundValue(sliderValue + d)
       IN /\ v # sliderValue
          /\ sliderValue' = v
          /\ Issue(SliderCalls(RED_LED, v))
    /\ lastOp' = "slider"
    /\ UNCHANGED <<pc, window, brightness, increasing, ticks, errorReported, exitCode>>

\* one timeout of the fade timer
Tick ==
    /\ pc = "exec"
    /\ ticks < MaxTicks
    /\ Issue(TickCalls(brightness))
    /\ brightness' = FadeStep(brightness, increasing).brightness
    /\ increasing' = FadeStep(brightness, increasing).increasing
    /\ ticks' = ticks + 1
    /\ lastOp' = "tick"
    /\ UNCHANGED <<pc, window, sliderValue, errorReported, exitCode>>

\* the exit button's clicked lambda: QApplication::quit()
ExitClickIgnored ==
    /\ pc = "exec"
    /\ pc' = "exec"
    /\ Issue(<<>>)
    /\ lastOp' = "exitClick"
    /\ UNCHANGED <<window, sliderValue, brightness, increasing, ticks,
                   errorReported, exitCode>>

ExitClick ==
    /\ pc = "exec"
    /\ pc' = "quitting"
    /\ Issue(<<>>)
    /\ lastOp' = "exitClick"
    /\ UNCHANGED <<window, sliderValue, brightness, increasing, ticks,
                   errorReported, exitCode>>

\* the user closes the window: the last window closed quits the application
WindowClose ==
    /\ pc = "exec"
    /\ pc' = "quitting"
    /\ Issue(<<>>)
    /\ lastOp' = "windowClose"
    /\ UNCHANGED <<window, sliderValue, brightness, increasing, ticks,
                   errorReported, exitCode>>

\* the event loop has ended: aboutToQuit runs its handler, app.exec() returns
\* and main returns its value; the window and its timer are destroyed
AboutToQuit ==
    /\ pc = "quitting"
    /\ Issue(AboutToQuitCalls)
    /\ exitCode' = <<MainReturn(FALSE)>>
    /\ window' = "destroyed"
    /\ pc' = "done"
    /\ lastOp' = "aboutToQuit"
    /\ UNCHANGED <<sliderValue, brightness, increasing, ticks, errorReported>>

Next ==
    \/ \E r \in InitResults : SetupGpio(r)
    \/ \E throws \in BOOLEAN : CreateGui(throws)
    \/ \E d \in (0 - MaxDelta)..MaxDelta : SliderMove(d)
    \/ Tick
    \/ ExitClick
    \/ WindowClose
    \/ AboutToQuit

Spec == Init /\ [][Next]_vars

---------------------------------------------------------------------------
(* The running application under fair scheduling *)

\* one timeout of the fade timer, left uncounted so that the timer can fire
\* for ever: the handler itself keeps no count
TickUncounted ==
    /\ pc = "exec"
    /\ Issue(TickCalls(brightness))
    /\ brightness' = FadeStep(brightness, increasing).brightness
    /\ increasing' = FadeStep(brightness, increasing).increasing
    /\ lastOp' = "tick"
    /\ UNCHANGED <<pc, window, sliderValue, ticks, errorReported, exitCode>>

\* a move of the slider that stays in the lower part of its range
SliderMoveLive(d) ==
    /\ BoundValue(sliderValue + d) <= MaxSliderLive
    /\ SliderMove(d)

LiveNext ==
    \/ \E r \in InitResults : SetupGpio(r)
    \/ \E throws \in BOOLEAN : CreateGui(throws)
    \/ \E d \in (0 - MaxDelta)..MaxDelta : SliderMoveLive(d)
    \/ TickUncounted
    \/ ExitClick
    \/ WindowClose
    \/ AboutToQuit

\* the started timer times out every 20 ms while the event loop runs, and a
\* loop that was told to quit ends and emits aboutToQuit
LiveSpec ==
    /\ Init
    /\ [][LiveNext]_vars
    /\ WF_vars(TickUncounted)
    /\ WF_vars(AboutToQuit)

---------------------------------------------------------------------------
(* Properties *)

PinCalls(calls) == {i \in 1..Len(calls) : calls[i].op \in {"setMode", "pwm"}}
PwmIdx(calls) == {i \in 1..Len(calls) : calls[i].op = "pwm"}
ZeroIdx(calls, p) ==
    {i \in 1..Len(calls) : calls[i].op = "pwm" /\ calls[i].pin = p /\ calls[i].val = 0}
TermIdx(calls) == {i \in 1..Len(calls) : calls[i].op = "terminate"}

\* C1: when main has returned in a run whose driver initialisation succeeded,
\* the step that ended the run (the aboutToQuit handler or the catch block)
\* made exactly one gpioPWM(pin, 0) call for each of the pins 17, 27 and 22.
C1_ShutdownZeroesEveryChannel ==
    (pc = "done" /\ initOk) =>
        \A p \in {17, 27, 22} : Cardinality(ZeroIdx(lastCalls, p)) = 1

\* C2: the driver is never released twice; a run that ended after a successful
\* initialisation released it exactly once; and when the aboutToQuit handler
\* ran, its single gpioTerminate came after a zero duty cycle on every pin.
C2_ReleaseOnceAfterZeroes ==
    /\ termCalls <= 1
    /\ (pc = "done" /\ initOk) => termCalls = 1
    /\ lastOp = "aboutToQuit" =>
          /\ Cardinality(TermIdx(lastCalls)) = 1
          /\ \A t \in TermIdx(lastCalls) : \A p \in Pins :
                \E i \in ZeroIdx(lastCalls, p) : i < t

C2_Witness ==
    /\ pc = "done" /\ lastOp = "aboutToQuit" /\ termCalls = 1
    /\ ticks > 0 /\ sliderValue > 0

\* C3: once gpioInitialise has failed, the error is reported, main has
\* returned 1, gpioInitialise was called exactly once, no gpioSetMode and no
\* gpioPWM call was ever made, and the window was never built.
C3_InitFailureIsFatal ==
    (initCalls > 0 /\ ~initOk) =>
        /\ pc = "done"
        /\ errorReported
        /\ exitCode = <<1>>
        /\ initCalls = 1
        /\ modeSet = {}
        /\ DOMAIN lastDuty = {}
        /\ PinCalls(lastCalls) = {}
        /\ window = "none"

C3_Witness == initCalls = 1 /\ drv # "ready" /\ ~initOk /\ pc = "done"

\* C4: after n ticks the level is the n-th term of 0,2,...,254,255,253,...,1,
\* 0,2,...: 2m for m = n mod 256 below 128, and 511 - 2m from there on; it
\* stands on 255 and on 0 exactly once per round and never leaves 0..255.
C4_LevelAfterTicks ==
    LET m == ticks % 256
    IN /\ brightness = (IF m < 128 THEN 2 * m ELSE 511 - 2 * m)
       /\ brightness \in 0..255

C4_Witness == ticks = 257 /\ brightness = 2 /\ increasing

\* C5: a tick emits the level it starts with on green (27) and 255 minus that
\* same level on blue (22), then steps; the two emitted values add up to 255.
C5_TickEmitsComplement ==
    [][ticks' # ticks =>
          /\ Len(lastCalls') = 2
          /\ lastCalls'[1].op = "pwm" /\ lastCalls'[1].pin = 27
          /\ lastCalls'[2].op = "pwm" /\ lastCalls'[2].pin = 22
          /\ lastCalls'[1].val = brightness
          /\ lastCalls'[2].val = 255 - brightness
          /\ lastCalls'[1].val + lastCalls'[2].val = 255]_vars

C5_Witness ==
    /\ lastOp = "tick" /\ ticks = 128
    /\ lastCalls[1].val = 254 /\ lastCalls[2].val = 1 /\ brightness = 255

\* C6: every duty cycle passed to gpioPWM, by whichever handler, is in 0..255.
C6_DutyInRange ==
    \A i \in PwmIdx(lastCalls) : lastCalls[i].val \in 0..255

C6_Witness ==
    /\ lastOp = "slider" /\ sliderValue = 255 /\ ticks > 128
    /\ lastCalls[1].val = 255

\* C7: whenever the red slider's value changes to v, the handler makes
\* exactly one driver call, gpioPWM(17, v), with v in 0..255.
C7_SliderEmitsOnce ==
    [][sliderValue' # sliderValue =>
          /\ sliderValue' \in 0..255
          /\ Len(lastCalls') = 1
          /\ lastCalls'[1].op = "pwm"
          /\ lastCalls'[1].pin = 17
          /\ lastCalls'[1].val = sliderValue']_vars

C7_Witness ==
    /\ lastOp = "slider" /\ sliderValue = 200
    /\ lastCalls = <<[op |-> "pwm", pin |-> 17, val |-> 200, at |-> "ready"]>>

\* C8: a tick turns the direction from increasing to decreasing exactly when
\* level + 2 >= 255, and then leaves the level at 255; from decreasing to
\* increasing exactly when level - 2 <= 0, and then leaves it at 0; no other
\* step changes the direction; the level is always in 0..255; and after 128
\* ticks the level is 255 and the direction decreasing.
C8_TurnsAtBoundaries ==
    /\ [](brightness \in 0..255)
    /\ [](ticks = 128 => (brightness = 255 /\ ~increasing))
    /\ [][/\ ticks' # ticks =>
               /\ (increasing /\ ~increasing') <=> (increasing /\ brightness + 2 >= 255)
               /\ (increasing /\ ~increasing') => brightness' = 255
               /\ (~increasing /\ increasing') <=> (~increasing /\ brightness - 2 <= 0)
               /\ (~increasing /\ increasing') => brightness' = 0
          /\ ticks' = ticks => (increasing' = increasing /\ brightness' = brightness)]_vars

C8_Witness == ticks = 256 /\ lastOp = "tick" /\ brightness = 0 /\ increasing

\* C9: main returns 0 when the run ends through the exit button or the
\* closing of the window, and 1 when gpioInitialise failed; it returns
\* nothing before the run has ended.
C9_ExitCodes ==
    /\ pc # "done" => exitCode = <<>>
    /\ (pc = "done" /\ lastOp = "aboutToQuit") => exitCode = <<0>>
    /\ (pc = "done" /\ ~initOk) => exitCode = <<1>>

C9_Witness == pc = "done" /\ lastOp = "aboutToQuit" /\ exitCode = <<0>> /\ ticks = 0

\* C10: every gpioSetMode and gpioPWM call reaches the driver while it is
\* initialised and not yet released.
C10_PinCallsOnLiveDriver ==
    \A i \in PinCalls(lastCalls) : lastCalls[i].at = "ready"

C10_Witness ==
    /\ pc = "done" /\ lastOp = "aboutToQuit" /\ ticks > 1 /\ sliderValue = 1
    /\ Cardinality(PinCalls(lastCalls)) = 3

\* C11: gpioTerminate is never called on a driver whose gpioInitialise has
\* returned failure.
C11_NoReleaseAfterFailedInit ==
    \A i \in TermIdx(lastCalls) : lastCalls[i].at # "failed"

\* C12: a change of the slider leaves the fade state alone and makes no
\* gpioPWM call on green (27) or blue (22); a tick leaves the slider's value
\* alone and makes no call on red (17); the fade state changes in ticks only;
\* and while the loop runs, the latest green and blue duty cycles are the
\* ones of the tick count alone, whatever slider changes came in between.
C12_FadeStateOwnedByTick ==
    /\ [][/\ sliderValue' # sliderValue =>
               /\ brightness' = brightness /\ increasing' = increasing
               /\ \A i \in PwmIdx(lastCalls') : lastCalls'[i].pin \notin {27, 22}
          /\ ticks' # ticks =>
               /\ sliderValue' = sliderValue
               /\ \A i \in PwmIdx(lastCalls') : lastCalls'[i].pin # 17
          /\ (brightness' # brightness \/ increasing' # increasing) =>
               ticks' = ticks + 1]_vars
    /\ []((pc = "exec" /\ ticks > 0) =>
            LET m == (ticks - 1) % 256
                g == IF m < 128 THEN 2 * m ELSE 511 - 2 * m
            IN lastDuty[27] = g /\ lastDuty[22] = 255 - g)

C12_Witness ==
    /\ pc = "exec" /\ lastOp = "slider" /\ sliderValue = 7 /\ ticks = 3
    /\ brightness = 6 /\ lastDuty[27] = 4 /\ lastDuty[22] = 251

\* C15: the fade state is a one-to-one function of the tick count modulo 256:
\* the phase fixes the level and the direction, the level and the direction
\* fix the phase, so 256 states are reachable and the state after n + 256
\* ticks is the state after n; the direction is increasing exactly on the
\* even levels 0..254 and decreasing exactly on the odd levels 1..255.
C15_Period256 ==
    LET m == ticks % 256
    IN /\ brightness \in 0..255
       /\ increasing <=> brightness % 2 = 0
       /\ increasing <=> m < 128
       /\ brightness = (IF m < 128 THEN 2 * m ELSE 511 - 2 * m)
       /\ m = (IF increasing THEN brightness \div 2
                             ELSE 128 + (255 - brightness) \div 2)

C15_Witness ==
    /\ ticks = 258 /\ brightness = 4 /\ increasing /\ lastOp = "tick"

\* C16: while the application runs, the latest duty cycle on red (17), if
\* there is one, is the slider's value; a slider away from 0 has emitted; and
\* the first call on red comes with a change of the slider (or the shutdown).
C16_RedFollowsSlider ==
    /\ []((pc \in {"exec", "quitting"} /\ 17 \in DOMAIN lastDuty) =>
              lastDuty[17] = sliderValue)
    /\ []((pc \in {"exec", "quitting"} /\ sliderValue # 0) => 17 \in DOMAIN lastDuty)
    /\ []((lastOp = "createGui" /\ pc = "exec") =>
              (sliderValue = 0 /\ 17 \notin DOMAIN lastDuty))
    /\ [][(17 \notin DOMAIN lastDuty /\ 17 \in DOMAIN lastDuty') =>
              (sliderValue' # sliderValue \/ lastOp' = "aboutToQuit")]_vars

C16_Witness ==
    /\ pc = "exec" /\ lastOp = "tick" /\ ticks = 2 /\ sliderValue = 9
    /\ 17 \in DOMAIN lastDuty /\ lastDuty[17] = 9

\* C13: if the application keeps running, the level is 255 again and again
\* and 0 again and again: no fade state is a dead end.
C13_BothBoundariesForever ==
    <>[](pc = "exec") => ([]<>(brightness = 255) /\ []<>(brightness = 0))

C13_Witness ==
    /\ pc = "exec" /\ lastOp = "tick" /\ brightness = 0 /\ increasing
    /\ lastDuty[27] = 1 /\ lastDuty[22] = 254

\* C14: a click on the exit button leads to the end of the run with the
\* driver released; the driver is released only as the run ends, and once the
\* run has ended no handler runs any more.
C14_ExitLeadsToShutdown ==
    /\ (lastOp = "exitClick") ~> (pc = "done" /\ drv = "terminated" /\ termCalls = 1)
    /\ [](drv = "terminated" => pc = "done")
    /\ [][pc = "done" => UNCHANGED vars]_vars

C14_Witness ==
    /\ lastOp = "exitClick" /\ pc = "quitting" /\ drv = "ready"
    /\ brightness = 6 /\ sliderValue = 2

====
